---- MODULE Spec2Model ----
(***************************************************************************)
(* Chattrix: the client-side message-synchronisation core (ChatProvider   *)
(* in client/context/ChatContext.jsx), the two components that drive it   *)
(* (SideBar, ChatContainer) and the server's message controller.          *)
(*                                                                         *)
(* One action is one handler run to completion on the browser's event     *)
(* loop, together with the React effects that the handler's state updates *)
(* trigger (operator Effects).  Everything that awaits the network is     *)
(* split at the await: the request, the server's handling of it and the   *)
(* continuation that processes the response are separate actions.         *)
(***************************************************************************)
EXTENDS Integers, Sequences, FiniteSets, TLC

(* ---------------------------- bounds ----------------------------------- *)
MaxStore == 1      \* messages the server's store can hold
MaxSends == 1      \* sendMessage calls made by the local user
MaxFetch == 1      \* history requests in flight at the same time
MaxDeliver == 2    \* socket events delivered to the client
MaxUsersResp == 1  \* peer-list responses in flight at the same time
MaxStoreOrder == 2 \* the store's capacity where the order of messages is studied
MaxSendsOrder == 2 \* sendMessage calls where the order of messages is studied
MaxStoredLen == 3  \* items of a list found in localStorage at page load
MaxClock == 5      \* the last second of the runs in which time is followed

(* ---------------------------- identifiers ------------------------------ *)
Me == "me"
Peers == {"A", "B"}
None == "none"
\* String(x) of a populated user document used as a property key
ObjKey == "[object Object]"
\* temporary identifiers ("temp-...") live apart from the server's identifiers
TempBase == 100
\* the property keys the client's tables are indexed by
Keys == Peers \cup {ObjKey}
\* a property that is missing from an object
Undefined == "undefined"

VARIABLES
  messages,        \* useState([])  : the active visible sequence
  selectedUser,    \* useState(null): _id of the selected user, or None
  unseenMessages,  \* useState({})  : key -> count, read as unseenMessages[k] || 0
  userMessagesMap, \* useState({})  : key -> sequence of messages
  store,           \* the server's Message collection, in creation order
  fetches,         \* GET /api/messages/:id calls in flight
  sends,           \* POST /api/messages/send/:id calls in flight
  usersResp,       \* GET /api/messages/users responses in flight
  socketQ,         \* identifiers the server emitted to this client as newMessage
  nSends,          \* sendMessage calls made so far
  nDeliver,        \* socket events delivered so far
  localStorage,    \* the items 'userMessagesMap' and 'unseenMessages' of localStorage
  emitted,         \* the socket events the handler that ran last has emitted
  cap,             \* how many documents and sendMessage calls this run may make
  users,           \* useState([])  : the peer list of the last getUsers answer
  lastErrorAt,     \* useRef({})    : message -> time of its last notification
  now,             \* Date.now(), in seconds
  toast,           \* history: the last call of showThrottledError and its outcome
  lastOp           \* history: the handler that ran last and its arguments

vars == <<messages, selectedUser, unseenMessages, userMessagesMap, store,
          fetches, sends, usersResp, socketQ, nSends, nDeliver, localStorage,
          emitted, cap, users, lastErrorAt, now, toast, lastOp>>

(* ---------------------------- helpers ---------------------------------- *)
\* {...prev, [k]: v}
Put(f, k, v) == [x \in (DOMAIN f) \cup {k} |-> IF x = k THEN v ELSE f[x]]

\* prev[k] || []   and   prev[k] || 0
GetList(f, k) == IF k \in DOMAIN f THEN f[k] ELSE <<>>
GetCount(f, k) == IF k \in DOMAIN f THEN f[k] ELSE 0

\* {...prev, ...other}
Merge(f, g) == [x \in (DOMAIN f) \cup (DOMAIN g) |-> IF x \in DOMAIN g THEN g[x] ELSE f[x]]

\* lastOp: the handler, the user it concerns, the temporary and the server
\* identifier it concerns, and that user's unseen count before it ran (for a
\* page load: the number of array elements it found in the stored cache; for
\* a peer-list answer: the number of users it reports a count for)
OpWas(op, peer, tid, mid, was) ==
  [op |-> op, peer |-> peer, tid |-> tid, mid |-> mid, was |-> was]
Op(op, peer, tid, mid) == OpWas(op, peer, tid, mid, 0)

\* A message as the client holds it.  pop = TRUE when senderId and receiverId
\* are populated user documents (objects) instead of identifier strings; the
\* fields senderId / receiverId then carry the _id of the document.
Msg(id, s, r, seen, isTemp, pop) ==
  [id |-> id, senderId |-> s, receiverId |-> r, seen |-> seen, isTemp |-> isTemp, pop |-> pop]

\* m.senderId === uid : an object is never === a string
SenderIs(m, uid) == ~m.pop /\ m.senderId = uid

\* the value used as a property key: an object key is "[object Object]"
SenderKey(m) == IF m.pop THEN ObjKey ELSE m.senderId
ReceiverKey(m) == IF m.pop THEN ObjKey ELSE m.receiverId

\* the participant who is not the local user (what otherUserId is meant to be)
OtherParty(m) == IF m.senderId = Me THEN m.receiverId ELSE m.senderId

\* a stored document serialised without populate (GET /api/messages/:id)
PlainDoc(d) == Msg(d.id, d.senderId, d.receiverId, d.seen, FALSE, FALSE)

\* res.json({ success: true, messages }): the found documents, unpopulated
PlainDocs(st) == [i \in 1..Len(st) |-> PlainDoc(st[i])]

\* a stored document after .populate("senderId").populate("receiverId")
PopulatedDoc(d) == Msg(d.id, d.senderId, d.receiverId, d.seen, FALSE, TRUE)

(* ---------------------------- localStorage ----------------------------- *)
\* An item of localStorage is a string; a record stands for it: kind says what
\* JSON.parse makes of it ("absent": getItem returns null, "unparseable":
\* JSON.parse throws, "null", "object"), entries are the parsed object's
\* properties.
StoredRecord(kind, entries) == [kind |-> kind, entries |-> entries]

\* a property value of the stored cache: an array with its elements, or
\* anything else
StoredValue(kind, items) == [kind |-> kind, items |-> items]

\* an element of a stored array: "object" with the message m, "null" or
\* "scalar"
StoredItem(kind, m) == [kind |-> kind, m |-> m]

\* JSON.stringify(userMessagesMap): every entry, every message, every field
StringifyMap(map) ==
  StoredRecord("object",
    [k \in DOMAIN map |->
       StoredValue("array", [i \in 1..Len(map[k]) |-> StoredItem("object", map[k][i])])])

\* JSON.stringify(unseenMessages)
StringifyUnseen(uns) == StoredRecord("object", uns)

\* save effect: localStorage.setItem of both items
SaveEffect(map, uns) ==
  [userMessagesMap |-> StringifyMap(map), unseenMessages |-> StringifyUnseen(uns)]

(* ---------------------------- outbound events -------------------------- *)
\* socket.emit("markAsRead", { messageId, userId })
MarkAsRead(messageId, userId) ==
  [event |-> "markAsRead", messageId |-> messageId, userId |-> userId]

\* socket.emit("sendMessage", data.newMessage)
EmitSendMessage(messageId, userId) ==
  [event |-> "sendMessage", messageId |-> messageId, userId |-> userId]

\* msgs.filter(m => m.senderId === uid && !m.seen)
Unread(msgs, uid) == SelectSeq(msgs, LAMBDA m : SenderIs(m, uid) /\ ~m.seen)

\* unread.forEach(m => socket.emit("markAsRead", ...))
MarkAsReadEach(msgs, uid) ==
  [i \in 1..Len(Unread(msgs, uid)) |-> MarkAsRead(Unread(msgs, uid)[i].id, uid)]

(* ---------------------------- requests --------------------------------- *)
\* A call of getMessages(userId).  match records what the closure's test
\* `selectedUser && selectedUser._id === userId` (ChatContext.jsx:110) will
\* yield: selectedUser there is the value captured when the callback was made.
Req(userId, match) == [userId |-> userId, match |-> match, phase |-> "req", data |-> <<>>]

\* The call is made; when MaxFetch calls are already in flight the new ones
\* fail at once (the catch branch of getMessages changes no state).
Issue(fs, reqs) == IF Cardinality(fs \cup reqs) <= MaxFetch THEN fs \cup reqs ELSE fs

(* ---------------------------- React effects ---------------------------- *)
\* ChatContainer mark-as-read effect: unread messages of the selected user
\* in the visible sequence clear that user's unseen count.
MarkReadEffect(msgs, uns, sel) ==
  IF sel # None /\ Len(msgs) > 0
     /\ \E i \in 1..Len(msgs) : SenderIs(msgs[i], sel) /\ ~msgs[i].seen
  THEN Put(uns, sel, 0)
  ELSE uns

\* ChatContainer mark-as-read effect: the markAsRead events it emits
MarkReadEmits(msgs, sel) ==
  IF sel # None /\ Len(msgs) > 0 THEN MarkAsReadEach(msgs, sel) ELSE <<>>

\* a selectedUser effect that does not copy the cache entry
SelectedUserEffectMessagesNoCopy(msgs, map, sel) == IF sel # None THEN msgs ELSE <<>>

\* ChatProvider selectedUser effect, the visible sequence it leaves
SelectedUserEffectMessages(msgs, map, sel) ==
  IF sel # None
  THEN IF sel \in DOMAIN map THEN map[sel] ELSE msgs
  ELSE <<>>

\* ChatProvider selectedUser effect, the unseen table it leaves
SelectedUserEffectUnseen(uns, map, sel) ==
  IF sel # None /\ sel \in DOMAIN map THEN Put(uns, sel, 0) ELSE uns

\* ChatProvider selectedUser effect, the history requests it makes
SelectedUserEffectFetch(map, sel) ==
  IF sel # None /\ sel \notin DOMAIN map THEN {Req(sel, TRUE)} ELSE {}

\* ChatContainer load-messages effect: every change of selectedUser fetches
LoadMessagesEffect(sel) == IF sel # None THEN {Req(sel, TRUE)} ELSE {}

\* The effects that run after a handler has set msgs, map, uns, sel and made
\* the requests fs.  selCh, msgCh, mapCh: which of selectedUser, messages and
\* userMessagesMap the handler replaced (the effects' dependency arrays).
\* Effects of the children (ChatContainer) run before those of ChatProvider;
\* the second commit re-runs the mark-as-read effect when messages changed.
Effects(msgs, map, uns, sel, fs, selCh, msgCh, mapCh) ==
  LET uns1 == IF selCh \/ msgCh THEN MarkReadEffect(msgs, uns, sel) ELSE uns
      fs1 == IF selCh THEN Issue(fs, LoadMessagesEffect(sel)) ELSE fs
      runE == selCh \/ mapCh
      msgs2 == IF runE THEN SelectedUserEffectMessages(msgs, map, sel) ELSE msgs
      uns2 == IF runE THEN SelectedUserEffectUnseen(uns1, map, sel) ELSE uns1
      fs2 == IF runE THEN Issue(fs1, SelectedUserEffectFetch(map, sel)) ELSE fs1
      uns3 == IF msgs2 # msgs THEN MarkReadEffect(msgs2, uns2, sel) ELSE uns2
      out1 == IF selCh \/ msgCh THEN MarkReadEmits(msgs, sel) ELSE <<>>
      out2 == IF msgs2 # msgs THEN MarkReadEmits(msgs2, sel) ELSE <<>>
  IN [messages |-> msgs2, unseen |-> uns3, fetches |-> fs2, emits |-> out1 \o out2]

\* The handler's updates and the events out it emits, followed by the
\* effects; the save effect writes the tables as they are in the end
Commit(msgs, map, uns, sel, fs, selCh, msgCh, mapCh, out) ==
  LET e == Effects(msgs, map, uns, sel, fs, selCh, msgCh, mapCh)
  IN /\ messages' = e.messages
     /\ userMessagesMap' = map
     /\ unseenMessages' = e.unseen
     /\ selectedUser' = sel
     /\ fetches' = e.fetches
     /\ emitted' = out \o e.emits
     /\ localStorage' = SaveEffect(map, e.unseen)

(* ---------------------------- notifications -------------------------- *)
\* showThrottledError(msg, ms = 3000): the window, in seconds
Window == 3

\* the texts showThrottledError is called with
ErrorMessages ==
  {"Failed to load users", "Failed to load messages", "Failed to send",
   "Network Error", "No recipient selected"}

\* before the first call: no text was passed, nothing was shown
NoToast == [msg |-> None, shown |-> FALSE, prev |-> 0, at |-> [m \in ErrorMessages |-> 0]]

\* a throttle that lets every notification through
NotThrottledAlways(last, t, msg) == TRUE

\* !lastErrorAt.current[msg] || now - lastErrorAt.current[msg] > ms
\* (a text that was never shown has no property: 0 stands for undefined)
NotThrottled(last, t, msg) == last[msg] = 0 \/ t - last[msg] > Window

\* showThrottledError(msg).  toast records the call: the text, whether
\* toast.error was called, the time of the last toast.error with this text
\* before the call (0: none), and per text the time of the last toast.error.
\* Runs whose cap.clock is 0 do not follow time and notifications.
ShowThrottledError(msg) ==
  IF cap.clock = 0
  THEN UNCHANGED <<lastErrorAt, toast>>
  ELSE LET show == NotThrottled(lastErrorAt, now, msg)
       IN /\ lastErrorAt' = IF show THEN [lastErrorAt EXCEPT ![msg] = now] ELSE lastErrorAt
          /\ toast' = [msg |-> msg, shown |-> show, prev |-> toast.at[msg],
                       at |-> IF show THEN [toast.at EXCEPT ![msg] = now] ELSE toast.at]

(* ---------------------------- initial state ---------------------------- *)
Init ==
  /\ messages = <<>>
  /\ selectedUser = None
  /\ unseenMessages = [k \in Keys |-> 0]
  /\ userMessagesMap = << >>
  /\ store = <<>>
  /\ fetches = {}
  /\ sends = {}
  /\ usersResp = {}
  /\ socketQ = {}
  /\ nSends = 0
  /\ nDeliver = 0
  /\ localStorage = SaveEffect(<< >>, [k \in Keys |-> 0])
  /\ emitted = <<>>
  /\ cap = [store |-> MaxStore, sends |-> MaxSends, clock |-> 0]
  /\ users = <<>>
  /\ lastErrorAt = [m \in ErrorMessages |-> 0]
  /\ now = 1
  /\ toast = NoToast
  /\ lastOp = Op("init", None, 0, 0)

\* the same state, in a run long enough for two messages to be created
InitOrder ==
  /\ messages = <<>>
  /\ selectedUser = None
  /\ unseenMessages = [k \in Keys |-> 0]
  /\ userMessagesMap = << >>
  /\ store = <<>>
  /\ fetches = {}
  /\ sends = {}
  /\ usersResp = {}
  /\ socketQ = {}
  /\ nSends = 0
  /\ nDeliver = 0
  /\ localStorage = SaveEffect(<< >>, [k \in Keys |-> 0])
  /\ emitted = <<>>
  /\ cap = [store |-> MaxStoreOrder, sends |-> MaxSendsOrder, clock |-> 0]
  /\ users = <<>>
  /\ lastErrorAt = [m \in ErrorMessages |-> 0]
  /\ now = 1
  /\ toast = NoToast
  /\ lastOp = Op("init", None, 0, 0)

(* ---------------------------- page load -------------------------------- *)
\* msg && typeof msg === 'object' && msg.senderId && msg.receiverId
ValidItem(it) ==
  it.kind = "object" /\ it.m.senderId # Undefined /\ it.m.receiverId # Undefined

\* a filter that gives up on a list as soon as one element is invalid
CleanItemsAllOrNothing(items) ==
  IF \A i \in 1..Len(items) : ValidItem(items[i])
  THEN [i \in 1..Len(items) |-> items[i].m]
  ELSE <<>>

\* parsedMessages[userId].filter(...)
CleanItems(items) ==
  LET kept == SelectSeq(items, ValidItem)
  IN [i \in 1..Len(kept) |-> kept[i].m]

\* load effect: cleanedMessages, built from the keys whose value is an array
CleanedMessages(rec) ==
  [k \in {x \in DOMAIN rec.entries : rec.entries[x].kind = "array"} |->
     CleanItems(rec.entries[k].items)]

\* JSON.parse(storedMessages) throws, or Object.keys(null) throws
MapLoadThrows(rec) == rec.kind \in {"unparseable", "null"}

\* load effect: userMessagesMap; an absent item and a throw leave it as it is
LoadMap(ls, map) ==
  IF ls.userMessagesMap.kind = "object" THEN CleanedMessages(ls.userMessagesMap) ELSE map

\* load effect: unseenMessages; reached only when the first half did not
\* throw (one try block holds both halves)
LoadUnseen(ls, uns) ==
  IF MapLoadThrows(ls.userMessagesMap)
  THEN uns
  ELSE IF ls.unseenMessages.kind = "object"
       THEN [k \in Keys |-> GetCount(ls.unseenMessages.entries, k)]
       ELSE uns

\* the number of array elements in the stored cache
StoredCount(rec) ==
  LET n(k) == IF k \in DOMAIN rec.entries THEN Len(rec.entries[k].items) ELSE 0
  IN n("A") + n("B")

\* The page is loaded (or reloaded): ChatProvider is constructed with the
\* useState initial values, the load effect reads localStorage and the save
\* effect writes the resulting tables back.  Requests of the previous page
\* are gone with it.
Hydrate ==
  /\ messages' = <<>>
  /\ selectedUser' = None
  /\ userMessagesMap' = LoadMap(localStorage, << >>)
  /\ unseenMessages' = LoadUnseen(localStorage, [k \in Keys |-> 0])
  /\ localStorage' = SaveEffect(userMessagesMap', unseenMessages')
  /\ fetches' = {}
  /\ sends' = {}
  /\ usersResp' = {}
  /\ emitted' = <<>>
  /\ users' = <<>>
  /\ lastErrorAt' = [m \in ErrorMessages |-> 0]
  /\ lastOp' = OpWas("hydrate", None, 0, 0, StoredCount(localStorage.userMessagesMap))
  /\ UNCHANGED <<store, socketQ, nSends, nDeliver, cap, now, toast>>

\* What a page load can find in localStorage.  The elements of a stored array
\* of the conversation with k: two messages, a message without senderId, one
\* without receiverId, null and a scalar.
StoredItems(k) ==
  { StoredItem("object", Msg(1, k, Me, TRUE, FALSE, FALSE)),
    StoredItem("object", Msg(2, Me, k, FALSE, FALSE, FALSE)),
    StoredItem("object", Msg(1, Undefined, Me, TRUE, FALSE, FALSE)),
    StoredItem("object", Msg(2, Me, Undefined, FALSE, FALSE, FALSE)),
    StoredItem("null", Msg(0, Undefined, Undefined, FALSE, FALSE, FALSE)),
    StoredItem("scalar", Msg(0, Undefined, Undefined, FALSE, FALSE, FALSE)) }

\* the arrays of at most MaxStoredLen elements
StoredArrays(k) ==
  UNION { [1..n -> StoredItems(k)] : n \in 0..MaxStoredLen }

\* the values of the property "A": any array, or something that is no array
StoredValuesA ==
  { StoredValue("array", items) : items \in StoredArrays("A") }
    \cup { StoredValue("other", <<>>) }

\* the values of the property "B"
StoredValuesB ==
  { StoredValue("array", <<StoredItem("object", Msg(1, "B", Me, TRUE, FALSE, FALSE))>>),
    StoredValue("other", <<>>) }

\* the item 'userMessagesMap'
StoredMaps ==
  { StoredRecord(kind, << >>) : kind \in {"absent", "unparseable", "null", "object"} }
    \cup { StoredRecord("object", [k \in {"A"} |-> a]) : a \in StoredValuesA }
    \cup { StoredRecord("object", [k \in {"B"} |-> b]) : b \in StoredValuesB }
    \cup { StoredRecord("object", [k \in {"A", "B"} |-> IF k = "A" THEN a ELSE b]) :
             a \in StoredValuesA, b \in StoredValuesB }

\* the item 'unseenMessages'
StoredUnseens ==
  { StoredRecord(kind, << >>) : kind \in {"absent", "unparseable"} }
    \cup { StoredRecord("object", [k \in {"A"} |-> n]) : n \in 1..2 }

\* the page is about to be loaded for a browser whose localStorage holds
\* anything an earlier session, or anyone else, has left there
InitStored ==
  /\ messages = <<>>
  /\ selectedUser = None
  /\ unseenMessages = [k \in Keys |-> 0]
  /\ userMessagesMap = << >>
  /\ store = <<>>
  /\ fetches = {}
  /\ sends = {}
  /\ usersResp = {}
  /\ socketQ = {}
  /\ nSends = 0
  /\ nDeliver = 0
  /\ localStorage \in [userMessagesMap : StoredMaps, unseenMessages : StoredUnseens]
  /\ emitted = <<>>
  /\ cap = [store |-> MaxStore, sends |-> MaxSends, clock |-> 0]
  /\ users = <<>>
  /\ lastErrorAt = [m \in ErrorMessages |-> 0]
  /\ now = 1
  /\ toast = NoToast
  /\ lastOp = Op("boot", None, 0, 0)

(* ---------------------------- selection -------------------------------- *)
\* a click that leaves the unseen table alone
ClickUnseenKept(uns, u) == uns

\* SideBar handleUserClick, the unseen table after the click
ClickUnseen(uns, u) == Put(uns, u, 0)

\* SideBar handleUserClick(user).  getMessages is the callback of the render
\* in which the click happens, so its selectedUser is the previous selection.
\* refCh: whether the clicked user object differs from the selected one (the
\* users list is replaced by every getUsers response).
HandleUserClick(u, refCh) ==
  /\ u # selectedUser => refCh
  /\ Commit(messages, userMessagesMap, ClickUnseen(unseenMessages, u), u,
            Issue(fetches, {Req(u, selectedUser = u)}), refCh, FALSE, FALSE, <<>>)
  /\ lastOp' = OpWas("select", u, 0, 0, unseenMessages[u])
  /\ UNCHANGED <<store, sends, usersResp, socketQ, nSends, nDeliver, cap, users, lastErrorAt, now, toast>>

\* ChatContainer back / close button: setSelectedUser(null)
Deselect ==
  /\ selectedUser # None
  /\ Commit(messages, userMessagesMap, unseenMessages, None, fetches, TRUE, FALSE, FALSE, <<>>)
  /\ lastOp' = Op("deselect", None, 0, 0)
  /\ UNCHANGED <<store, sends, usersResp, socketQ, nSends, nDeliver, cap, users, lastErrorAt, now, toast>>

(* ---------------------------- history fetch ---------------------------- *)
\* the documents exchanged between the local user and u, in creation order
Conversation(st, u) ==
  SelectSeq(st, LAMBDA d : (d.senderId = Me /\ d.receiverId = u)
                           \/ (d.senderId = u /\ d.receiverId = Me))

\* Message.updateMany({senderId: u, receiverId: me, seen: false}, {seen: true})
MarkSeen(st, u) ==
  [i \in 1..Len(st) |->
     IF st[i].senderId = u /\ st[i].receiverId = Me THEN [st[i] EXCEPT !.seen = TRUE] ELSE st[i]]

\* server getMessages up to its second await: User.findById and Message.find
\* have answered, the documents found are held for the answer
ServerFind(f) ==
  /\ f \in fetches /\ f.phase = "req"
  /\ fetches' = (fetches \ {f}) \cup
                {[f EXCEPT !.phase = "found", !.data = PlainDocs(Conversation(store, f.userId))]}
  /\ lastOp' = Op("find", f.userId, 0, 0)
  /\ emitted' = <<>>
  /\ UNCHANGED <<messages, selectedUser, unseenMessages, userMessagesMap, store, sends,
                 usersResp, socketQ, nSends, nDeliver, localStorage, cap, users,
                 lastErrorAt, now, toast>>

\* server getMessages from its second await: Message.updateMany runs on the
\* store as it is now, then the documents found earlier are sent
ServerUpdateMany(f) ==
  /\ f \in fetches /\ f.phase = "found"
  /\ fetches' = (fetches \ {f}) \cup {[f EXCEPT !.phase = "resp"]}
  /\ store' = MarkSeen(store, f.userId)
  /\ lastOp' = Op("updateMany", f.userId, 0, 0)
  /\ emitted' = <<>>
  /\ UNCHANGED <<messages, selectedUser, unseenMessages, userMessagesMap, sends,
                 usersResp, socketQ, nSends, nDeliver, localStorage, cap, users,
                 lastErrorAt, now, toast>>

\* server getMessages when no other request is served between its awaits:
\* find the conversation, mark it seen, answer with the documents as they
\* were found
ServerGetMessages(f) ==
  /\ f \in fetches /\ f.phase = "req"
  /\ fetches' = (fetches \ {f}) \cup
                {[f EXCEPT !.phase = "resp", !.data = PlainDocs(Conversation(store, f.userId))]}
  /\ store' = MarkSeen(store, f.userId)
  /\ lastOp' = Op("other", None, 0, 0)
  /\ emitted' = <<>>
  /\ UNCHANGED <<messages, selectedUser, unseenMessages, userMessagesMap, sends,
                 usersResp, socketQ, nSends, nDeliver, localStorage, cap, users, lastErrorAt, now, toast>>

\* getMessages, success branch: the cache entry written
GetMessagesMap(map, userId, data) == Put(map, userId, data)

\* getMessages, success branch: the visible sequence; the test uses the
\* selectedUser the callback captured (f.match), not the current one
GetMessagesMessages(msgs, match, data) == IF match THEN data ELSE msgs

\* getMessages, success branch: the unseen table
GetMessagesUnseen(uns, userId) == Put(uns, userId, 0)

\* getMessages after the await, data.success
FetchResponse(f) ==
  /\ f \in fetches /\ f.phase = "resp"
  /\ Commit(GetMessagesMessages(messages, f.match, f.data),
            GetMessagesMap(userMessagesMap, f.userId, f.data),
            GetMessagesUnseen(unseenMessages, f.userId),
            selectedUser, fetches \ {f}, FALSE, f.match, TRUE,
            MarkAsReadEach(f.data, f.userId))
  /\ lastOp' = OpWas("fetchOk", f.userId, 0, 0, unseenMessages[f.userId])
  /\ UNCHANGED <<store, sends, usersResp, socketQ, nSends, nDeliver, cap, users, lastErrorAt, now, toast>>

\* a failure handled as if the server had answered with an empty history
FetchFailAsEmpty(f) ==
  /\ f \in fetches
  /\ Commit(GetMessagesMessages(messages, f.match, <<>>),
            GetMessagesMap(userMessagesMap, f.userId, <<>>),
            unseenMessages, selectedUser, fetches \ {f}, FALSE, f.match, TRUE, <<>>)
  /\ ShowThrottledError("Network Error")
  /\ lastOp' = Op("fetchFail", f.userId, 0, 0)
  /\ UNCHANGED <<store, sends, usersResp, socketQ, nSends, nDeliver, cap, users, now>>

\* getMessages after the await, non-success answer (else branch) or thrown
\* error (catch branch): only a notification
FetchFail(f) ==
  /\ f \in fetches
  /\ fetches' = fetches \ {f}
  /\ \E msg \in {"Failed to load messages", "Network Error"} : ShowThrottledError(msg)
  /\ lastOp' = Op("fetchFail", f.userId, 0, 0)
  /\ emitted' = <<>>
  /\ UNCHANGED <<messages, selectedUser, unseenMessages, userMessagesMap, store, sends,
                 usersResp, socketQ, nSends, nDeliver, localStorage, cap, users, now>>

(* ---------------------------- peer list -------------------------------- *)
\* a server that reports the count of every user, zero included
UnseenCountsWithZeros(st) ==
  [u \in Peers |-> Cardinality({i \in 1..Len(st) :
                     st[i].senderId = u /\ st[i].receiverId = Me /\ ~st[i].seen})]

\* server getUsersForSidebar: the count of unseen documents per user, kept
\* only when it is positive
UnseenCounts(st) ==
  LET cnt(u) == Cardinality({i \in 1..Len(st) :
                   st[i].senderId = u /\ st[i].receiverId = Me /\ ~st[i].seen})
  IN [u \in {v \in Peers : cnt(v) > 0} |-> cnt(u)]

\* server getUsersForSidebar: every user but the caller
PeerList == <<"A", "B">>

\* getUsers up to the await, and the server's answer
GetUsersRequest ==
  /\ Cardinality(usersResp) < MaxUsersResp
  /\ usersResp' = usersResp \cup {UnseenCounts(store)}
  /\ lastOp' = Op("other", None, 0, 0)
  /\ emitted' = <<>>
  /\ UNCHANGED <<messages, selectedUser, unseenMessages, userMessagesMap, store, fetches,
                 sends, socketQ, nSends, nDeliver, localStorage, cap, users, lastErrorAt, now, toast>>

\* getUsers, success branch: the unseen table
GetUsersUnseen(uns, counts) == Merge(uns, counts)

\* getUsers after the await, data.success
GetUsersResponse(r) ==
  /\ r \in usersResp
  /\ usersResp' = usersResp \ {r}
  /\ unseenMessages' = GetUsersUnseen(unseenMessages, r)
  /\ localStorage' = SaveEffect(userMessagesMap, unseenMessages')
  /\ users' = PeerList
  /\ lastOp' = OpWas("usersOk", None, 0, 0, Cardinality(DOMAIN r))
  /\ emitted' = <<>>
  /\ UNCHANGED <<messages, selectedUser, userMessagesMap, store, fetches, sends, socketQ,
                 nSends, nDeliver, cap, lastErrorAt, now, toast>>

\* getUsers after the await, non-success answer or thrown error
GetUsersFail(r) ==
  /\ r \in usersResp
  /\ usersResp' = usersResp \ {r}
  /\ \E msg \in {"Failed to load users", "Network Error"} : ShowThrottledError(msg)
  /\ lastOp' = Op("usersFail", None, 0, 0)
  /\ emitted' = <<>>
  /\ UNCHANGED <<messages, selectedUser, unseenMessages, userMessagesMap, store, fetches,
                 sends, socketQ, nSends, nDeliver, localStorage, cap, users, now>>

(* ---------------------------- sendMessage ------------------------------ *)
\* the optimistic placeholder built by sendMessage
TempMessage(tid, peer) == Msg(tid, Me, peer, FALSE, TRUE, FALSE)

\* a sendMessage that does not look at selectedUser
HasRecipientAlways(sel) == TRUE

\* !(!selectedUser || !selectedUser._id)
HasRecipient(sel) == sel # None

\* sendMessage while no user is selected: a notification, nothing else
SendMessageNoRecipient ==
  /\ ~HasRecipient(selectedUser)
  /\ ShowThrottledError("No recipient selected")
  /\ emitted' = <<>>
  /\ lastOp' = Op("sendNoRecipient", None, 0, 0)
  /\ UNCHANGED <<messages, selectedUser, unseenMessages, userMessagesMap, store, fetches,
                 sends, usersResp, socketQ, nSends, nDeliver, localStorage, cap, users, now>>

\* sendMessage(messageData) up to the await: append the placeholder to the
\* visible sequence and to the cache entry of the selected user, then POST.
\* empty: messageData has neither text nor image; nothing tests it.
SendMessageData(empty) ==
  /\ HasRecipient(selectedUser)
  /\ nSends < cap.sends
  /\ LET tid == TempBase + nSends + 1
         tmp == TempMessage(tid, selectedUser)
     IN /\ Commit(Append(messages, tmp),
                  Put(userMessagesMap, selectedUser,
                      Append(GetList(userMessagesMap, selectedUser), tmp)),
                  unseenMessages, selectedUser, fetches, FALSE, TRUE, TRUE, <<>>)
        /\ sends' = sends \cup {[tid |-> tid, peer |-> selectedUser, phase |-> "req",
                                  mid |-> 0, empty |-> empty]}
        /\ lastOp' = Op(IF empty THEN "sendEmpty" ELSE "send", selectedUser, tid, 0)
  /\ nSends' = nSends + 1
  /\ UNCHANGED <<store, usersResp, socketQ, nDeliver, cap, users, lastErrorAt, now, toast>>

\* sendMessage with a text or an image
SendMessage == SendMessageData(FALSE)

\* sendMessage({}) or sendMessage({ text: "" })
SendEmptyMessage == SendMessageData(TRUE)

\* server sendMessage for a request of the local user: create the document,
\* (text: text || "", image: imageUrl || null, whatever they are), emit
\* newMessage (the populated document) to the receiver's and to the sender's
\* socket, answer with the populated document
ServerSendMessage(s) ==
  /\ s \in sends /\ s.phase = "req"
  /\ Len(store) < cap.store
  /\ LET id == Len(store) + 1
     IN /\ store' = Append(store, [id |-> id, senderId |-> Me, receiverId |-> s.peer,
                                    seen |-> FALSE, empty |-> s.empty])
        /\ socketQ' = socketQ \cup {id}
        /\ sends' = (sends \ {s}) \cup {[s EXCEPT !.phase = "ok", !.mid = id]}
        /\ lastOp' = Op("other", None, 0, 0)
  /\ emitted' = <<>>
  /\ UNCHANGED <<messages, selectedUser, unseenMessages, userMessagesMap, fetches,
                 usersResp, nSends, nDeliver, localStorage, cap, users, lastErrorAt, now, toast>>

\* server sendMessage for a request of a peer whose receiver is the local user
PeerSend(p) ==
  /\ Len(store) < cap.store
  /\ LET id == Len(store) + 1
     IN /\ store' = Append(store, [id |-> id, senderId |-> p, receiverId |-> Me,
                                    seen |-> FALSE, empty |-> FALSE])
        /\ socketQ' = socketQ \cup {id}
        /\ lastOp' = Op("other", None, 0, 0)
  /\ emitted' = <<>>
  /\ UNCHANGED <<messages, selectedUser, unseenMessages, userMessagesMap, fetches, sends,
                 usersResp, nSends, nDeliver, localStorage, cap, users, lastErrorAt, now, toast>>

\* an acknowledgement that replaces nothing
ReplaceTempKeeps(seq, tid, newMessage) == seq

\* prev.map(msg => msg.isTemp && msg._id === tempMessage._id ? data.newMessage : msg)
ReplaceTemp(seq, tid, newMessage) ==
  [i \in 1..Len(seq) |-> IF seq[i].isTemp /\ seq[i].id = tid THEN newMessage ELSE seq[i]]

\* a rollback that filters nothing
RemoveTempKeepsAll(seq, tid) == seq

\* prev.filter(msg => msg._id !== tempMessage._id)
RemoveTemp(seq, tid) == SelectSeq(seq, LAMBDA m : m.id # tid)

\* prev.filter(msg => !msg.isTemp)
RemoveAllTemp(seq) == SelectSeq(seq, LAMBDA m : ~m.isTemp)

\* sendMessage after the await, data.success && data.newMessage: s.peer is
\* the selectedUser the callback captured
SendAck(s) ==
  /\ s \in sends /\ s.phase = "ok"
  /\ LET newMessage == Msg(s.mid, Me, s.peer, FALSE, FALSE, TRUE)
     IN Commit(ReplaceTemp(messages, s.tid, newMessage),
               Put(userMessagesMap, s.peer,
                   ReplaceTemp(GetList(userMessagesMap, s.peer), s.tid, newMessage)),
               unseenMessages, selectedUser, fetches, FALSE, TRUE, TRUE,
               <<EmitSendMessage(s.mid, s.peer)>>)
  /\ sends' = sends \ {s}
  /\ lastOp' = Op("sendAck", s.peer, s.tid, s.mid)
  /\ UNCHANGED <<store, usersResp, socketQ, nSends, nDeliver, cap, users, lastErrorAt, now, toast>>

\* sendMessage after the await, answer without success (else branch)
SendFail(s) ==
  /\ s \in sends /\ s.phase = "req"
  /\ Commit(RemoveTemp(messages, s.tid),
            Put(userMessagesMap, s.peer, RemoveTemp(GetList(userMessagesMap, s.peer), s.tid)),
            unseenMessages, selectedUser, fetches, FALSE, TRUE, TRUE, <<>>)
  /\ sends' = sends \ {s}
  /\ ShowThrottledError("Failed to send")
  /\ lastOp' = Op("sendFail", s.peer, s.tid, 0)
  /\ UNCHANGED <<store, usersResp, socketQ, nSends, nDeliver, cap, users, now>>

\* sendMessage after the await, thrown error (catch branch); the request may
\* or may not have reached the server
SendThrow(s) ==
  /\ s \in sends
  /\ Commit(RemoveAllTemp(messages),
            Put(userMessagesMap, s.peer, RemoveAllTemp(GetList(userMessagesMap, s.peer))),
            unseenMessages, selectedUser, fetches, FALSE, TRUE, TRUE, <<>>)
  /\ sends' = sends \ {s}
  /\ ShowThrottledError("Network Error")
  /\ lastOp' = Op("sendThrow", s.peer, s.tid, 0)
  /\ UNCHANGED <<store, usersResp, socketQ, nSends, nDeliver, cap, users, now>>

(* ---------------------------- socket events ---------------------------- *)
\* otherUserId read from the populated documents (senderId._id)
OtherUserIdOfDocument(m) == OtherParty(m)

\* handleNewMessage / handleMessageUpdate: otherUserId
OtherUserId(m) == IF SenderIs(m, Me) THEN ReceiverKey(m) ELSE SenderKey(m)

\* msgs.map(msg => msg._id === m._id ? m : msg)
ReplaceById(seq, m) == [i \in 1..Len(seq) |-> IF seq[i].id = m.id THEN m ELSE seq[i]]

\* handleNewMessage: the cache after the event
NewMessageMap(map, sel, m) ==
  LET other == OtherUserId(m)
      map1 == Put(map, other, Append(GetList(map, other), m))
  IN IF sel # None /\ sel = other /\ ~SenderIs(m, Me)
     THEN Put(map1, other, ReplaceById(GetList(map1, other), [m EXCEPT !.seen = TRUE]))
     ELSE map1

\* a handler that appends every event to the visible sequence
NewMessageMessagesAlways(msgs, sel, m) == Append(msgs, m)

\* handleNewMessage: the visible sequence after the event
NewMessageMessages(msgs, sel, m) ==
  IF sel # None /\ sel = OtherUserId(m)
  THEN IF ~SenderIs(m, Me)
       THEN ReplaceById(Append(msgs, m), [m EXCEPT !.seen = TRUE])
       ELSE Append(msgs, m)
  ELSE msgs

\* handleNewMessage: the unseen table after the event
NewMessageUnseen(uns, sel, m) ==
  IF sel # None /\ sel = OtherUserId(m)
  THEN uns
  ELSE IF ~SenderIs(m, Me)
       THEN Put(uns, SenderKey(m), GetCount(uns, SenderKey(m)) + 1)
       ELSE uns

\* handleNewMessage: the markAsRead event it emits
NewMessageEmits(sel, m) ==
  IF sel # None /\ sel = OtherUserId(m) /\ ~SenderIs(m, Me)
  THEN <<MarkAsRead(m.id, OtherUserId(m))>>
  ELSE <<>>

\* handleNewMessage(m) for a well-formed event m
HandleNewMessage(m) ==
  /\ nDeliver < MaxDeliver
  /\ nDeliver' = nDeliver + 1
  /\ Commit(NewMessageMessages(messages, selectedUser, m),
            NewMessageMap(userMessagesMap, selectedUser, m),
            NewMessageUnseen(unseenMessages, selectedUser, m),
            selectedUser, fetches, FALSE,
            selectedUser # None /\ selectedUser = OtherUserId(m), TRUE,
            NewMessageEmits(selectedUser, m))
  /\ UNCHANGED <<store, sends, usersResp, socketQ, nSends, cap, users, lastErrorAt, now, toast>>

\* "newMessage" as the server's sendMessage handler emits it: the populated
\* document as created (seen = false).  The transport may deliver it late,
\* more than once or never.
ReceiveNewMessage(id) ==
  /\ id \in socketQ
  /\ HandleNewMessage(PopulatedDoc([store[id] EXCEPT !.seen = FALSE]))
  /\ lastOp' = Op("newMessage", OtherParty(store[id]), 0, id)

\* "newMessage" carrying plain identifiers, as the handler expects them
BoundaryNewMessage(id) ==
  /\ id \in 1..Len(store)
  /\ HandleNewMessage(PlainDoc([store[id] EXCEPT !.seen = FALSE]))
  /\ lastOp' = Op("newMessagePlain", OtherParty(store[id]), 0, id)

\* an event as it arrives: "null", or an "object" whose senderId and
\* receiverId may be missing
Event(kind, m) == [kind |-> kind, m |-> m]

\* a validation that only rejects null
ValidEventNotNull(e) == e.kind = "object"

\* !(!newMessage || !newMessage.senderId || !newMessage.receiverId)
ValidEvent(e) ==
  e.kind = "object" /\ e.m.senderId # Undefined /\ e.m.receiverId # Undefined

\* the events that lack something: null, no senderId, no receiverId
MalformedEvents ==
  { Event("null", Msg(0, Undefined, Undefined, FALSE, FALSE, FALSE)) }
    \cup { Event("object", Msg(1, Undefined, Me, FALSE, FALSE, FALSE)) }
    \cup { Event("object", Msg(1, p, Undefined, FALSE, FALSE, FALSE)) : p \in Peers }

\* "newMessage" with an event that lacks something: handleNewMessage logs and
\* returns
ReceiveMalformedNewMessage(e) ==
  /\ IF ValidEvent(e)
     THEN HandleNewMessage(e.m)
     ELSE /\ emitted' = <<>>
          /\ UNCHANGED <<messages, selectedUser, unseenMessages, userMessagesMap, store,
                         fetches, sends, usersResp, socketQ, nSends, nDeliver,
                         localStorage, cap, users, lastErrorAt, now, toast>>
  /\ lastOp' = Op("newMessageMalformed", None, 0, e.m.id)

\* handleMessageUpdate: the cache after the event
MessageUpdateMap(map, m) ==
  Put(map, OtherUserId(m), ReplaceById(GetList(map, OtherUserId(m)), m))

\* handleMessageUpdate: the visible sequence after the event
MessageUpdateMessages(msgs, sel, m) ==
  IF sel # None /\ sel = OtherUserId(m) THEN ReplaceById(msgs, m) ELSE msgs

\* handleMessageUpdate: the unseen table after the event
MessageUpdateUnseen(uns, sel, m) ==
  IF m.seen /\ sel # OtherUserId(m) THEN Put(uns, OtherUserId(m), 0) ELSE uns

\* "messageUpdated" for a stored document whose seen flag was set
ReceiveMessageUpdate(id, pop) ==
  /\ id \in 1..Len(store)
  /\ nDeliver < MaxDeliver
  /\ nDeliver' = nDeliver + 1
  /\ LET d == [store[id] EXCEPT !.seen = TRUE]
         m == IF pop THEN PopulatedDoc(d) ELSE PlainDoc(d)
     IN Commit(MessageUpdateMessages(messages, selectedUser, m),
               MessageUpdateMap(userMessagesMap, m),
               MessageUpdateUnseen(unseenMessages, selectedUser, m),
               selectedUser, fetches, FALSE,
               selectedUser # None /\ selectedUser = OtherUserId(m), TRUE, <<>>)
  /\ lastOp' = Op(IF pop THEN "messageUpdated" ELSE "messageUpdatedPlain",
                  OtherParty(store[id]), 0, id)
  /\ UNCHANGED <<store, sends, usersResp, socketQ, nSends, cap, users, lastErrorAt, now, toast>>

\* handleMarkAsRead: the unseen table after the event
MarkAsReadUnseen(uns, userId, count) == Put(uns, userId, count)

\* "markAsReadResult" { userId, count }: the count is stored for the user,
\* selected or not (count || 0 is count for a number)
ReceiveMarkAsReadResult(userId, count) ==
  /\ nDeliver < MaxDeliver
  /\ nDeliver' = nDeliver + 1
  /\ unseenMessages' = MarkAsReadUnseen(unseenMessages, userId, count)
  /\ localStorage' = SaveEffect(userMessagesMap, unseenMessages')
  /\ lastOp' = OpWas("markAsReadResult", userId, 0, 0, count)
  /\ emitted' = <<>>
  /\ UNCHANGED <<messages, selectedUser, userMessagesMap, store, fetches, sends, usersResp,
                 socketQ, nSends, cap, users, lastErrorAt, now, toast>>

(* ---------------------------- time ------------------------------------- *)
\* a second passes
Tick ==
  /\ now < cap.clock
  /\ now' = now + 1
  /\ lastOp' = Op("tick", None, 0, 0)
  /\ emitted' = <<>>
  /\ UNCHANGED <<messages, selectedUser, unseenMessages, userMessagesMap, store, fetches,
                 sends, usersResp, socketQ, nSends, nDeliver, localStorage, cap, users,
                 lastErrorAt, toast>>

\* the page as it is after construction, in a run that follows time
InitClock ==
  /\ messages = <<>>
  /\ selectedUser = None
  /\ unseenMessages = [k \in Keys |-> 0]
  /\ userMessagesMap = << >>
  /\ store = <<>>
  /\ fetches = {}
  /\ sends = {}
  /\ usersResp = {}
  /\ socketQ = {}
  /\ nSends = 0
  /\ nDeliver = 0
  /\ localStorage = SaveEffect(<< >>, [k \in Keys |-> 0])
  /\ emitted = <<>>
  /\ cap = [store |-> MaxStore, sends |-> MaxSends, clock |-> MaxClock]
  /\ users = <<>>
  /\ lastErrorAt = [m \in ErrorMessages |-> 0]
  /\ now = 1
  /\ toast = NoToast
  /\ lastOp = Op("init", None, 0, 0)

(* ---------------------------- specifications --------------------------- *)
\* the user selects and deselects conversations; history requests run
Selection ==
  \/ \E u \in Peers, refCh \in BOOLEAN : HandleUserClick(u, refCh)
  \/ Deselect
  \/ \E f \in fetches : ServerGetMessages(f)
  \/ \E f \in fetches : FetchResponse(f)
  \/ \E f \in fetches : FetchFail(f)

\* the local user sends
Sending ==
  \/ SendMessage
  \/ \E s \in sends : ServerSendMessage(s)
  \/ \E s \in sends : SendAck(s)
  \/ \E s \in sends : SendFail(s)
  \/ \E s \in sends : SendThrow(s)

\* the peer list is refreshed
Refreshing ==
  \/ GetUsersRequest
  \/ \E r \in usersResp : GetUsersResponse(r)
  \/ \E r \in usersResp : GetUsersFail(r)

\* Sends, with "newMessage" events exactly as the server's sendMessage
\* handler emits them
NextServer ==
  \/ Selection
  \/ Sending
  \/ \E id \in socketQ : ReceiveNewMessage(id)

\* Every handler of the client, with peers sending and the transport
\* delivering events of either shape
Next ==
  \/ Selection
  \/ Sending
  \/ \E p \in Peers : PeerSend(p)
  \/ \E id \in socketQ : ReceiveNewMessage(id)
  \/ \E id \in 1..Len(store) : BoundaryNewMessage(id)
  \/ \E id \in 1..Len(store), pop \in BOOLEAN : ReceiveMessageUpdate(id, pop)

\* Peers send; the user selects conversations while events arrive
NextInbound ==
  \/ Selection
  \/ \E p \in Peers : PeerSend(p)
  \/ \E id \in socketQ : ReceiveNewMessage(id)
  \/ \E id \in 1..Len(store) : BoundaryNewMessage(id)
  \/ \E id \in 1..Len(store), pop \in BOOLEAN : ReceiveMessageUpdate(id, pop)

\* Peers send and the peer list is refreshed while the user selects
NextRefresh ==
  \/ Selection
  \/ Refreshing
  \/ \E p \in Peers : PeerSend(p)
  \/ \E id \in socketQ : ReceiveNewMessage(id)
  \/ \E id \in 1..Len(store) : BoundaryNewMessage(id)

\* Page loads and reloads; between them the user selects and sends while
\* the network is down
NextStorage ==
  \/ Hydrate
  \/ lastOp.op # "boot" /\ \E u \in Peers, refCh \in BOOLEAN : HandleUserClick(u, refCh)
  \/ lastOp.op # "boot" /\ Deselect
  \/ lastOp.op # "boot" /\ \E f \in fetches : FetchFail(f)
  \/ lastOp.op # "boot" /\ SendMessage
  \/ lastOp.op # "boot" /\ \E s \in sends : SendFail(s)
  \/ lastOp.op # "boot" /\ \E s \in sends : SendThrow(s)

\* Events of every kind arrive, the malformed ones too
NextEvents ==
  \/ NextInbound
  \/ \E e \in MalformedEvents : ReceiveMalformedNewMessage(e)

\* sendMessage is called in every way: with and without a selected user,
\* with and without content
NextCalls ==
  \/ NextServer
  \/ SendMessageNoRecipient
  \/ SendEmptyMessage

\* Calls fail while time passes: history requests, and sendMessage without
\* a selected user
NextClock ==
  \/ Tick
  \/ \E u \in Peers, refCh \in BOOLEAN : HandleUserClick(u, refCh)
  \/ Deselect
  \/ \E f \in fetches : FetchFail(f)
  \/ SendMessageNoRecipient

\* Peers send while the user selects conversations; the server's history
\* handler is followed await by await
NextHistory ==
  \/ \E u \in Peers, refCh \in BOOLEAN : HandleUserClick(u, refCh)
  \/ Deselect
  \/ \E f \in fetches : ServerFind(f)
  \/ \E f \in fetches : ServerUpdateMany(f)
  \/ \E f \in fetches : FetchResponse(f)
  \/ \E f \in fetches : FetchFail(f)
  \/ \E p \in Peers : PeerSend(p)

\* Peers send, the peer list is refreshed and results of markAsRead arrive
\* while the user selects conversations
NextCounts ==
  \/ Selection
  \/ Refreshing
  \/ \E p \in Peers : PeerSend(p)
  \/ \E p \in Peers, count \in 0..1 : ReceiveMarkAsReadResult(p, count)

\* the temporary identifiers sendMessage can give out
TempIds == {TempBase + i : i \in 1..MaxSendsOrder}

\* the POST of the send with placeholder tid returns and sendMessage goes on
\* after its await, in one of its three branches
SendReturns(tid) ==
  \E s \in sends :
    /\ s.tid = tid
    /\ (SendAck(s) \/ SendFail(s) \/ SendThrow(s))

Spec == Init /\ [][Next]_vars

\* every POST of sendMessage returns in the end
SpecPending ==
  Init /\ [][NextServer]_vars /\ \A tid \in TempIds : WF_vars(SendReturns(tid))

SpecCounts == Init /\ [][NextCounts]_vars

SpecHistory == InitOrder /\ [][NextHistory]_vars

SpecClock == InitClock /\ [][NextClock]_vars

SpecCalls == Init /\ [][NextCalls]_vars

SpecEvents == Init /\ [][NextEvents]_vars

SpecOrder == InitOrder /\ [][NextServer]_vars

SpecStorage == InitStored /\ [][NextStorage]_vars

SpecRefresh == Init /\ [][NextRefresh]_vars

SpecInbound == Init /\ [][NextInbound]_vars

SpecServer == Init /\ [][NextServer]_vars

(* ---------------------------- properties ------------------------------- *)
\* how many entries of seq carry the identifier id
Count(seq, id) == Cardinality({i \in 1..Len(seq) : seq[i].id = id})

\* no two confirmed entries of seq carry the same identifier
NoDuplicate(seq) ==
  \A i, j \in 1..Len(seq) :
    (i # j /\ ~seq[i].isTemp /\ ~seq[j].isTemp) => seq[i].id # seq[j].id

NewMessageOps == {"newMessage", "newMessagePlain"}

\* C1: with sends, their acknowledgements and the newMessage events the
\* server emits for them, the active visible sequence never holds two
\* entries with the same server-assigned identifier.
C1_NoDuplicateInActive == NoDuplicate(messages)

\* C1 witness: the echo of an acknowledged send has been handled while the
\* canonical message is in the active visible sequence
C1_Witness ==
  /\ lastOp.op = "newMessage"
  /\ store[lastOp.mid].senderId = Me
  /\ selectedUser = lastOp.peer
  /\ Count(messages, lastOp.mid) = 1
  /\ sends = {}

\* C2: delivering the same newMessage event a second time leaves the cache
\* as it was after the first delivery (one entry with that identifier).
C2_IdempotentDelivery ==
  [][(/\ lastOp'.op \in NewMessageOps
      /\ lastOp.op = lastOp'.op
      /\ lastOp.mid = lastOp'.mid)
     => userMessagesMap' = userMessagesMap]_vars

\* C3: the response of a history fetch for a user who is not the selected
\* user when it arrives is discarded: it does not change the active visible
\* sequence.
C3_StaleFetchDiscarded ==
  [][(/\ lastOp'.op = "fetchOk"
      /\ selectedUser \in Peers
      /\ selectedUser # lastOp'.peer)
     => messages' = messages]_vars

\* C4: after a send failed (answer without success, or thrown error) its
\* placeholder is neither in the active visible sequence nor in any cache
\* entry.
C4_FailedSendRemoved ==
  lastOp.op \in {"sendFail", "sendThrow"} =>
    /\ Count(messages, lastOp.tid) = 0
    /\ \A k \in DOMAIN userMessagesMap : Count(userMessagesMap[k], lastOp.tid) = 0

\* C4 witness: a send to the selected user has failed; the user's cache
\* entry, to which the placeholder had been appended, is the active sequence
C4_Witness ==
  /\ lastOp.op \in {"sendFail", "sendThrow"}
  /\ selectedUser = lastOp.peer
  /\ lastOp.peer \in DOMAIN userMessagesMap
  /\ messages = userMessagesMap[lastOp.peer]

\* C5: whenever a user is selected and has a cache entry, the active visible
\* sequence equals that cache entry.
C5_ActiveEqualsCache ==
  (selectedUser \in Peers /\ selectedUser \in DOMAIN userMessagesMap)
    => messages = userMessagesMap[selectedUser]

\* C5 witness: a send to the selected user has been acknowledged and its
\* canonical message is shown
C5_Witness ==
  /\ lastOp.op = "sendAck"
  /\ selectedUser = lastOp.peer
  /\ Count(messages, lastOp.mid) = 1

\* C6: the unseen count of P is 0 right after P is selected, and right after
\* the history fetched for the selected P has been stored.
C6_UnseenZeroAfterSelect ==
  /\ lastOp.op = "select" => unseenMessages[lastOp.peer] = 0
  /\ (lastOp.op = "fetchOk" /\ selectedUser = lastOp.peer) => unseenMessages[lastOp.peer] = 0

\* C6 witness: a user without cache entry whose count was positive has been
\* selected
C6_Witness ==
  /\ lastOp.op = "select"
  /\ lastOp.was > 0
  /\ lastOp.peer \notin DOMAIN userMessagesMap

\* C7: a newMessage sent by P while P is not selected adds exactly one to
\* P's unseen count and changes no other count; a self-echo changes no count.
C7_UnseenIncrement ==
  [][lastOp'.op \in NewMessageOps =>
       LET d == store[lastOp'.mid]
       IN /\ (d.senderId # Me /\ selectedUser # d.senderId)
               => unseenMessages' = [unseenMessages EXCEPT ![d.senderId] = @ + 1]
          /\ d.senderId = Me => unseenMessages' = unseenMessages]_vars

\* C8: a send shows exactly one placeholder, and its acknowledgement leaves
\* exactly one entry with the canonical identifier in the peer's cache entry,
\* where the placeholder was, and no placeholder of that send.
C8_AckReplacesPending ==
  [][/\ lastOp'.op = "send" =>
          Count(userMessagesMap'[lastOp'.peer], lastOp'.tid) = 1
     /\ lastOp'.op = "sendAck" =>
          LET before == GetList(userMessagesMap, lastOp'.peer)
              after == GetList(userMessagesMap', lastOp'.peer)
          IN /\ Count(after, lastOp'.mid) = 1
             /\ Count(after, lastOp'.tid) = 0
             /\ \A i \in 1..Len(before) :
                  before[i].id = lastOp'.tid => (i <= Len(after) /\ after[i].id = lastOp'.mid)]_vars

\* C9: a newMessage whose other party is not the selected user leaves the
\* active visible sequence unchanged.
C9_OtherConversationUntouched ==
  [][(/\ lastOp'.op \in NewMessageOps
      /\ OtherParty(store[lastOp'.mid]) # selectedUser)
     => messages' = messages]_vars

\* C9 witness: while a user with a non-empty visible sequence is selected, a
\* newMessage of the conversation with another user has been handled
C9_Witness ==
  /\ lastOp.op \in NewMessageOps
  /\ selectedUser \in Peers
  /\ selectedUser # lastOp.peer
  /\ Len(messages) > 0

\* C10: selecting a user who has a cache entry issues no history request.
C10_NoFetchWhenCached ==
  [][(/\ lastOp'.op = "select"
      /\ lastOp'.peer \in DOMAIN userMessagesMap)
     => fetches' \subseteq fetches]_vars

\* C11: no placeholder is ever in the stored cache, and a page load never
\* yields a placeholder.
C11_NoPendingPersisted ==
  /\ \A k \in DOMAIN localStorage.userMessagesMap.entries :
       \A i \in 1..Len(localStorage.userMessagesMap.entries[k].items) :
         ~localStorage.userMessagesMap.entries[k].items[i].m.isTemp
  /\ lastOp.op = "hydrate" =>
       \A k \in DOMAIN userMessagesMap :
         \A i \in 1..Len(userMessagesMap[k]) : ~userMessagesMap[k][i].isTemp

\* the confirmed entries of seq are in the order of their creation on the
\* server (identifiers are given in that order, as createdAt is)
InCreationOrder(seq) ==
  \A i, j \in 1..Len(seq) :
    (i < j /\ ~seq[i].isTemp /\ ~seq[j].isTemp) => seq[i].id <= seq[j].id

\* C12: every peer's cache entry is ordered by creation time, also after a
\* placeholder has been replaced in place by its canonical record.
C12_CacheOrdered ==
  \A k \in Peers \cap DOMAIN userMessagesMap : InCreationOrder(userMessagesMap[k])

\* the elements of items that are messages with a sender and a receiver,
\* in the order in which they stand, read from the front
RECURSIVE ValidMessagesOf(_)
ValidMessagesOf(items) ==
  IF items = <<>>
  THEN <<>>
  ELSE LET it == Head(items)
           ok == it.kind = "object" /\ it.m.senderId # Undefined /\ it.m.receiverId # Undefined
       IN (IF ok THEN <<it.m>> ELSE <<>>) \o ValidMessagesOf(Tail(items))

\* C13: a page load that finds an object in the item 'userMessagesMap' drops
\* the keys whose value is no list and the elements that lack a sender or a
\* receiver, and loads every other key with its valid messages in their order.
C13_HydrationEntryByEntry ==
  [][(lastOp'.op = "hydrate" /\ localStorage.userMessagesMap.kind = "object") =>
       LET entries == localStorage.userMessagesMap.entries
       IN \A k \in Peers :
            IF k \in DOMAIN entries /\ entries[k].kind = "array"
            THEN /\ k \in DOMAIN userMessagesMap'
                 /\ userMessagesMap'[k] = ValidMessagesOf(entries[k].items)
            ELSE k \notin DOMAIN userMessagesMap']_vars

\* C13 witness: a page load has found three elements under A, has dropped
\* one of them and has loaded the two others in their order
C13_Witness ==
  /\ lastOp.op = "hydrate"
  /\ lastOp.was = 3
  /\ DOMAIN userMessagesMap = {"A"}
  /\ Len(userMessagesMap["A"]) = 2
  /\ userMessagesMap["A"][1].id = 2
  /\ userMessagesMap["A"][2].id = 1

\* C14: the two items are loaded independently: an unparseable item leaves
\* its table empty and the other item, when it parses to an object, is still
\* loaded into its table.
C14_RecordsIndependent ==
  [][lastOp'.op = "hydrate" =>
       LET m == localStorage.userMessagesMap
           u == localStorage.unseenMessages
       IN /\ (m.kind = "unparseable" /\ u.kind = "object") =>
               /\ userMessagesMap' = << >>
               /\ \A k \in DOMAIN u.entries : unseenMessages'[k] = u.entries[k]
          /\ (u.kind = "unparseable" /\ m.kind = "object") =>
               /\ \A k \in Peers : unseenMessages'[k] = 0
               /\ DOMAIN userMessagesMap' =
                    {k \in DOMAIN m.entries : m.entries[k].kind = "array"}]_vars

\* C15: a newMessage event that is null or lacks its sender or its receiver
\* changes neither the cache, nor the active visible sequence, nor the unseen
\* table, and no event is emitted.
C15_MalformedEventIgnored ==
  [][lastOp'.op = "newMessageMalformed" =>
       /\ userMessagesMap' = userMessagesMap
       /\ messages' = messages
       /\ unseenMessages' = unseenMessages
       /\ emitted' = <<>>]_vars

\* C15 witness: a malformed event has been handled while a conversation with
\* messages was shown
C15_Witness ==
  /\ lastOp.op = "newMessageMalformed"
  /\ selectedUser \in Peers
  /\ Len(messages) > 0

\* how many markAsRead events for the message id are in out
MarkAsReadCount(out, id) ==
  Cardinality({i \in 1..Len(out) : out[i].event = "markAsRead" /\ out[i].messageId = id})

\* C16: a newMessage sent by the selected user is stored with seen = true in
\* the active visible sequence and in that user's cache entry, exactly one
\* markAsRead is emitted for it and the user's unseen count does not grow; a
\* self-echo to the selected user emits no markAsRead and keeps seen = false.
C16_SelectedPeerMarkedSeen ==
  [][lastOp'.op \in NewMessageOps =>
       LET d == store[lastOp'.mid]
       IN /\ (selectedUser \in Peers /\ d.senderId = selectedUser) =>
               /\ Count(messages', d.id) >= 1
               /\ \A i \in 1..Len(messages') : messages'[i].id = d.id => messages'[i].seen
               /\ Count(GetList(userMessagesMap', selectedUser), d.id) >= 1
               /\ \A i \in 1..Len(GetList(userMessagesMap', selectedUser)) :
                    userMessagesMap'[selectedUser][i].id = d.id
                      => userMessagesMap'[selectedUser][i].seen
               /\ MarkAsReadCount(emitted', d.id) = 1
               /\ unseenMessages'[selectedUser] <= unseenMessages[selectedUser]
          /\ (selectedUser \in Peers /\ d.senderId = Me /\ d.receiverId = selectedUser) =>
               /\ MarkAsReadCount(emitted', d.id) = 0
               /\ \A k \in DOMAIN userMessagesMap' :
                    \A i \in 1..Len(userMessagesMap'[k]) :
                      (userMessagesMap'[k][i].id = d.id /\ ~userMessagesMap'[k][i].isTemp)
                        => ~userMessagesMap'[k][i].seen]_vars

\* C17: a well-formed newMessage is filed in the cache under the identifier
\* of the participant who is not the local user, and under no other key.
C17_FiledUnderOtherParty ==
  [][lastOp'.op \in NewMessageOps =>
       LET d == store[lastOp'.mid]
           k == OtherParty(d)
       IN /\ Count(GetList(userMessagesMap', k), d.id) >= 1
          /\ \A x \in (DOMAIN userMessagesMap') \ {k} :
               Count(userMessagesMap'[x], d.id) = Count(GetList(userMessagesMap, x), d.id)]_vars

MessageUpdateOps == {"messageUpdated", "messageUpdatedPlain"}

\* the identifiers of seq, in order
IdsOf(seq) == [i \in 1..Len(seq) |-> seq[i].id]

\* after has the identifiers of before in the same order, and differs from it
\* only in entries with the identifier id
OnlyChangedAt(before, after, id) ==
  /\ IdsOf(after) = IdsOf(before)
  /\ \A i \in 1..Len(before) : before[i].id # id => after[i] = before[i]

\* C18: a messageUpdated event changes only entries with its identifier: the
\* cache entries and the active visible sequence keep their length and the
\* order of their identifiers, and every other message stays as it was.
C18_SeenUpdateInPlace ==
  [][lastOp'.op \in MessageUpdateOps =>
       /\ OnlyChangedAt(messages, messages', lastOp'.mid)
       /\ \A k \in DOMAIN userMessagesMap' :
            OnlyChangedAt(GetList(userMessagesMap, k), userMessagesMap'[k], lastOp'.mid)]_vars

\* C18 witness: an update has set the seen flag of a message that is shown
C18_Witness ==
  /\ lastOp.op \in MessageUpdateOps
  /\ \E i \in 1..Len(messages) : messages[i].id = lastOp.mid /\ messages[i].seen

\* C19: sendMessage while no user is selected creates no placeholder, in the
\* active visible sequence or in the cache, and issues no request.
C19_NoRecipientNoEffect ==
  [][(selectedUser = None /\ lastOp'.op \in {"send", "sendEmpty", "sendNoRecipient"}) =>
       /\ messages' = messages
       /\ userMessagesMap' = userMessagesMap
       /\ sends' = sends]_vars

\* C19 witness: sendMessage has been called with no user selected while the
\* cache held a conversation
C19_Witness ==
  /\ lastOp.op = "sendNoRecipient"
  /\ selectedUser = None
  /\ DOMAIN userMessagesMap # {}

\* C20: sendMessage with neither text nor image creates no placeholder and
\* issues no request, and no message without text and image is ever stored.
C20_EmptyContentRejected ==
  [][/\ lastOp'.op = "sendEmpty" =>
          /\ messages' = messages
          /\ userMessagesMap' = userMessagesMap
          /\ sends' = sends
     /\ \A i \in 1..Len(store') : ~store'[i].empty]_vars

\* the steps that call showThrottledError
FailOps == {"fetchFail", "usersFail", "sendFail", "sendThrow", "sendNoRecipient"}

\* C21: a notification is shown for a text only when more than Window
\* seconds have passed since the last notification with the same text, and a
\* call is never suppressed when no notification with its text was shown in
\* the last Window seconds, whatever was shown for other texts.
C21_ThrottledPerMessage ==
  [][lastOp'.op \in FailOps =>
       LET m == toast'.msg
       IN /\ (toast'.shown /\ toast.at[m] # 0) => now' - toast.at[m] > Window
          /\ (toast.at[m] = 0 \/ now' - toast.at[m] > Window) => toast'.shown]_vars

\* C21 witness: a notification is shown for the second time, after the
\* window, in the second in which a notification with another text was shown
C21_Witness ==
  /\ lastOp.op \in FailOps
  /\ toast.shown
  /\ toast.prev # 0
  /\ \E m \in ErrorMessages \ {toast.msg} : toast.at[m] = now

\* C22: a failed peer-list request and a failed history request change
\* neither the cache, nor the active visible sequence, nor the peer list,
\* nor the unseen table, nor what is stored of them.
C22_FailedFetchKeepsState ==
  [][lastOp'.op \in {"fetchFail", "usersFail"} =>
       /\ userMessagesMap' = userMessagesMap
       /\ messages' = messages
       /\ users' = users
       /\ unseenMessages' = unseenMessages
       /\ localStorage' = localStorage]_vars

\* C22 witness: the history request for the selected user, whose cached
\* conversation is shown, has failed while the peer list was loaded and
\* another user had unseen messages
C22_Witness ==
  /\ lastOp.op = "fetchFail"
  /\ selectedUser = lastOp.peer
  /\ lastOp.peer \in DOMAIN userMessagesMap
  /\ Len(messages) > 0
  /\ users # <<>>
  /\ \E k \in Keys : unseenMessages[k] > 0

\* C23: the answer of a peer-list request never replaces a positive unseen
\* count by zero, however old the server's snapshot is.
C23_RefreshKeepsPositiveCount ==
  [][lastOp'.op = "usersOk" =>
       \A p \in Peers : unseenMessages[p] > 0 => unseenMessages'[p] > 0]_vars

\* C23 witness: an answer computed before a message of P was created, and
\* so without a count for P, has been merged after the message had arrived
\* and had been counted
C23_Witness ==
  /\ lastOp.op = "usersOk"
  /\ lastOp.was = 0
  /\ \E p \in Peers :
       /\ unseenMessages[p] = 1
       /\ \E i \in 1..Len(store) : store[i].senderId = p /\ ~store[i].seen

\* the messages that the markAsRead events of out name
MarkedAsRead(out) == {out[i].messageId : i \in {j \in 1..Len(out) : out[j].event = "markAsRead"}}

\* C24: storing a fetched history requests the marking of its unseen
\* messages in bulk: the requests emitted do not name one message each, so
\* at most one message is ever named.
C24_MarkSeenInBulk ==
  [][lastOp'.op = "fetchOk" => Cardinality(MarkedAsRead(emitted')) <= 1]_vars

\* the documents whose seen flag the step sets
NewlySeen(before, after) == {i \in 1..Len(before) : ~before[i].seen /\ after[i].seen}

\* C29: the update of the server's history handler sets the seen flag only
\* of documents that are in the list the handler answers with.
C29_SeenOnlyIfReturned ==
  [][lastOp'.op = "updateMany" =>
       \A i \in NewlySeen(store, store') :
         \E f \in fetches' :
           /\ f.phase = "resp"
           /\ f.userId = lastOp'.peer
           /\ \E j \in 1..Len(f.data) : f.data[j].id = store[i].id]_vars

\* C25: once the acknowledgement of a send to P has been processed, P's
\* cache entry holds the canonical message, whatever history answers for P
\* arrived between the optimistic append and the acknowledgement.
C25_AckedSendInCache ==
  lastOp.op = "sendAck" =>
    Count(GetList(userMessagesMap, lastOp.peer), lastOp.mid) >= 1

\* C26: a failed send leaves the placeholders of the other sends that are
\* still in flight where they were, in the cache and in the active visible
\* sequence.
C26_FailedSendKeepsOthers ==
  [][lastOp'.op \in {"sendFail", "sendThrow"} =>
       \A s \in sends' :
         /\ Count(messages', s.tid) = Count(messages, s.tid)
         /\ Count(GetList(userMessagesMap', s.peer), s.tid)
              = Count(GetList(userMessagesMap, s.peer), s.tid)]_vars

\* C27: the unseen count of the selected user is 0 in every state, also
\* after the answer of a peer-list request has been merged and after a
\* markAsReadResult event has been handled.
C27_SelectedPeerCountZero ==
  selectedUser \in Peers => unseenMessages[selectedUser] = 0

\* C28: a messageUpdated event creates no cache entry: the cache has the
\* same keys after the event as before it.
C28_UpdateCreatesNoEntry ==
  [][lastOp'.op \in MessageUpdateOps =>
       DOMAIN userMessagesMap' = DOMAIN userMessagesMap]_vars

\* the placeholder tid is in the active visible sequence or in the cache
Pending(tid) ==
  \/ Count(messages, tid) > 0
  \/ \E k \in DOMAIN userMessagesMap : Count(userMessagesMap[k], tid) > 0

\* C30: when every request of sendMessage returns, every placeholder is
\* sooner or later neither in the cache nor in the active visible sequence.
C30_PendingResolved ==
  \A tid \in TempIds : Pending(tid) ~> ~Pending(tid)

\* C30 witness: a send has been acknowledged while another conversation was
\* shown; the canonical message took the placeholder's place in the cache
C30_Witness ==
  /\ lastOp.op = "sendAck"
  /\ selectedUser \in Peers
  /\ selectedUser # lastOp.peer
  /\ ~Pending(lastOp.tid)
  /\ Count(GetList(userMessagesMap, lastOp.peer), lastOp.mid) = 1

====
